---- MODULE Spec2Model ----
(***************************************************************************)
(* Model of fast_linear_combinations/multicombs.py: the greedy pairwise    *)
(* subset-sum solver (multisubset), the partitioned power-set solver       *)
(* (multisubset2) and the linear-combination reducer (lincomb), with the   *)
(* default adder (integer addition) and zero = 0.                          *)
(*                                                                         *)
(* Python lists are modelled as functions on 0..(n-1), so that the indices *)
(* of the model are the indices of the code.  A dict is a function whose   *)
(* domain is its key set.  The iteration order of a Python set is not      *)
(* fixed by the language, so the order in which pairs of equal count are   *)
(* ranked is a nondeterministic choice.                                    *)
(***************************************************************************)
EXTENDS Integers, FiniteSets, Sequences, TLC

VARIABLES
    fn,           \* the function the caller invoked
    arg_numbers,  \* the caller's `numbers` argument
    arg_subsets,  \* the `subsets` argument multisubset / multisubset2 receives
    factors,      \* the caller's `factors` argument (lincomb only)
    pc,           \* position of the call
    numbers,      \* multisubset's working copy of numbers (line 6)
    subsets,      \* multisubset's dict of outstanding subsets (line 7)
    output,       \* multisubset's output list (line 8)
    roundcount,   \* number of rounds begun so far (line 10)
    pair_count,   \* pair counts of this round, restricted to pairs not yet visited
    slots,        \* how many more entries of pairs_by_count the cutoff admits
    used,         \* indices consumed by a merge of this round (line 33)
    power_sets,   \* multisubset2's table of partition power sets (line 60)
    result,       \* value returned by the outermost call
    err,          \* exception raised by the call, "" if none
    adds          \* adder calls made by lincomb's recombination loop

vars == <<fn, arg_numbers, arg_subsets, factors, pc, numbers, subsets, output,
          roundcount, pair_count, slots, used, power_sets, result, err, adds>>

(***************************************************************************)
(* Bounds of the explored inputs.                                          *)
(***************************************************************************)
MaxLen == 3

MaxSubsets == 2

MaxBadSubsets == 1

Radix == 8

MaxFactor == 3

MaxFactors == 3

(***************************************************************************)
(* Program constants.                                                      *)
(***************************************************************************)
zero == 0

RoundCap == 9999999

NoResult == "None"

(***************************************************************************)
(* Lists as functions on 0..(n-1).                                         *)
(***************************************************************************)
ListLen(l) == Cardinality(DOMAIN l)

EmptyList == [i \in {} |-> zero]

ListAppend(l, v) == [i \in 0..ListLen(l) |-> IF i < ListLen(l) THEN l[i] ELSE v]

\* Python's list indexing accepts -len..len-1; anything else is an IndexError.
IndexOk(l, i) == (-ListLen(l)) <= i /\ i < ListLen(l)

ListGet(l, i) == IF i >= 0 THEN l[i] ELSE l[ListLen(l) + i]

ListsOver(S, maxlen) == UNION {[0..(n - 1) -> S] : n \in 0..maxlen}

adder(x, y) == x + y

\* ExpCeil[k] is the least integer n with e^k <= n, for every k whose e^k
\* lies below 2^31 (the integers of the model are 32-bit).
ExpCeil ==
    <<3, 8, 21, 55, 149, 404, 1097, 2981, 8104, 22027, 59875, 162755, 442414,
      1202605, 3269018, 8886111, 24154953, 65659970, 178482301, 485165196,
      1318815735>>

\* int(math.log(n)) for n >= 1: the largest k with e^k <= n.
IntLog(n) == Cardinality({k \in DOMAIN ExpCeil : ExpCeil[k] <= n})

RECURSIVE Pow2(_)
Pow2(j) == IF j = 0 THEN 1 ELSE 2 * Pow2(j - 1)

(***************************************************************************)
(* multisubset                                                             *)
(***************************************************************************)

\* lines 12-17: the dict of co-occurrence counts of index pairs (x, y), y > x
PairKeys(subs) ==
    {p \in UNION {S \X S : S \in {subs[k] : k \in DOMAIN subs}} : p[2] > p[1]}

PairCount(subs) ==
    [p \in PairKeys(subs) |->
        Cardinality({k \in DOMAIN subs : p[1] \in subs[k] /\ p[2] \in subs[k]})]

\* line 21: the slice bound len(numbers)*int(math.log(len(numbers)))
Cutoff(nums) == ListLen(nums) * IntLog(ListLen(nums))

\* line 21: the pairs that may stand next in the descending ranking
NextRanked(pcount) ==
    {p \in DOMAIN pcount : \A q \in DOMAIN pcount : pcount[q] <= pcount[p]}

Remaining(pcount, p) == [q \in (DOMAIN pcount) \ {p} |-> pcount[q]]

\* lines 25-27: the fold of one outstanding subset at the exit
RECURSIVE FoldAt(_, _, _)
FoldAt(nums, S, acc) ==
    IF S = {} THEN acc
    ELSE LET i == CHOOSE j \in S : TRUE
         IN FoldAt(nums, S \ {i}, adder(acc, ListGet(nums, i)))

ExitOutput(nums, subs, out) ==
    [k \in DOMAIN out |-> IF k \in DOMAIN subs THEN FoldAt(nums, subs[k], out[k]) ELSE out[k]]

\* Faulty variants of the rewrite: the merged pair is left in the subset, or
\* only its first index is removed.
MergedSubsetKeepsPair(S, maxx, maxy, newidx) == S \cup {newidx}

MergedSubsetKeepsY(S, maxx, maxy, newidx) == (S \ {maxx}) \cup {newidx}

\* lines 40-48: rewrite of the subsets after numbers grew by the merged value
MergedSubset(S, maxx, maxy, newidx) == (S \ {maxx, maxy}) \cup {newidx}

Resolved(subs, maxx, maxy) ==
    {k \in DOMAIN subs : subs[k] = {maxx, maxy}}

MergeSubsets(subs, maxx, maxy, newidx) ==
    [k \in (DOMAIN subs) \ Resolved(subs, maxx, maxy) |->
        IF maxx \in subs[k] /\ maxy \in subs[k]
        THEN MergedSubset(subs[k], maxx, maxy, newidx)
        ELSE subs[k]]

\* Faulty variant: the sum of a subset emptied by a merge is not recorded.
MergeOutputForgets(out, subs, maxx, maxy, v) == out

MergeOutput(out, subs, maxx, maxy, v) ==
    [k \in DOMAIN out |-> IF k \in Resolved(subs, maxx, maxy) THEN v ELSE out[k]]

\* lines 6-8
EnterMultisubset(nums, subs) ==
    /\ numbers' = nums
    /\ subsets' = subs
    /\ output' = [k \in DOMAIN subs |-> zero]
    /\ roundcount' = 0
    /\ pair_count' = EmptyList
    /\ slots' = 0
    /\ used' = {}

MultisubsetStart ==
    /\ pc = "start" /\ fn = "multisubset"
    /\ EnterMultisubset(arg_numbers, arg_subsets)
    /\ pc' = "round"
    /\ UNCHANGED <<fn, arg_numbers, arg_subsets, factors, power_sets, result, err, adds>>

\* line 21 with an empty numbers list: math.log(0) raises ValueError
RoundValueError ==
    /\ pc = "round" /\ roundcount < RoundCap
    /\ ListLen(numbers) = 0
    /\ pc' = "error" /\ err' = "ValueError"
    /\ UNCHANGED <<fn, arg_numbers, arg_subsets, factors, numbers, subsets, output,
                   roundcount, pair_count, slots, used, power_sets, result, adds>>

\* lines 12-21, 33: a round that finds ranked pairs and goes on to merge
RoundRank ==
    /\ pc = "round" /\ roundcount < RoundCap
    /\ ListLen(numbers) > 0
    /\ Cutoff(numbers) > 0 /\ PairKeys(subsets) # {}
    /\ pair_count' = PairCount(subsets)
    /\ slots' = Cutoff(numbers)
    /\ used' = {}
    /\ roundcount' = roundcount + 1
    /\ pc' = "merge"
    /\ UNCHANGED <<fn, arg_numbers, arg_subsets, factors, numbers, subsets, output,
                   power_sets, result, err, adds>>

\* lines 24-28: pairs_by_count is empty; fold what is left and return
RoundExit ==
    /\ pc = "round" /\ roundcount < RoundCap
    /\ ListLen(numbers) > 0
    /\ (Cutoff(numbers) = 0 \/ PairKeys(subsets) = {})
    /\ roundcount' = roundcount + 1
    /\ IF \A k \in DOMAIN subsets : \A i \in subsets[k] : IndexOk(numbers, i)
       THEN /\ output' = ExitOutput(numbers, subsets, output)
            /\ IF fn = "lincomb"
               THEN pc' = "recombine" /\ result' = result
               ELSE pc' = "returned" /\ result' = output'
            /\ err' = err
       ELSE /\ pc' = "error" /\ err' = "IndexError"
            /\ UNCHANGED <<output, result>>
    /\ UNCHANGED <<fn, arg_numbers, arg_subsets, factors, numbers, subsets,
                   pair_count, slots, used, power_sets, adds>>

\* lines 34-36: the next ranked pair touches a used index
SkipPair ==
    /\ pc = "merge" /\ slots > 0
    /\ \E p \in NextRanked(pair_count) :
        /\ (p[1] \in used \/ p[2] \in used)
        /\ pair_count' = Remaining(pair_count, p)
    /\ slots' = slots - 1
    /\ UNCHANGED <<fn, arg_numbers, arg_subsets, factors, pc, numbers, subsets, output,
                   roundcount, used, power_sets, result, err, adds>>

\* lines 34-48: the next ranked pair is merged
MergePair ==
    /\ pc = "merge" /\ slots > 0
    /\ \E p \in NextRanked(pair_count) :
        /\ p[1] \notin used /\ p[2] \notin used
        /\ used' = used \cup {p[1], p[2]}
        /\ pair_count' = Remaining(pair_count, p)
        /\ IF IndexOk(numbers, p[1]) /\ IndexOk(numbers, p[2])
           THEN LET v == adder(ListGet(numbers, p[1]), ListGet(numbers, p[2]))
                IN /\ numbers' = ListAppend(numbers, v)
                   /\ subsets' = MergeSubsets(subsets, p[1], p[2], ListLen(numbers))
                   /\ output' = MergeOutput(output, subsets, p[1], p[2], v)
                   /\ UNCHANGED <<pc, err>>
           ELSE /\ pc' = "error" /\ err' = "IndexError"
                /\ UNCHANGED <<numbers, subsets, output>>
    /\ slots' = slots - 1
    /\ UNCHANGED <<fn, arg_numbers, arg_subsets, factors, roundcount, power_sets,
                   result, adds>>

\* line 34: the for loop over pairs_by_count is exhausted
EndRound ==
    /\ pc = "merge"
    /\ (slots = 0 \/ DOMAIN pair_count = {})
    /\ pc' = "round"
    /\ UNCHANGED <<fn, arg_numbers, arg_subsets, factors, numbers, subsets, output,
                   roundcount, pair_count, slots, used, power_sets, result, err, adds>>

(***************************************************************************)
(* multisubset2                                                            *)
(***************************************************************************)

\* line 54
PartitionSize(subs) == 1 + IntLog(ListLen(subs) + 1)

\* lines 56-58
RECURSIVE Padded(_, _)
Padded(nums, k) ==
    IF ListLen(nums) % k # 0 THEN Padded(ListAppend(nums, zero), k) ELSE nums

\* lines 62-64: the power set after the first d values of the partition at offset i
RECURSIVE NewPowerSet(_, _, _)
NewPowerSet(nums, i, d) ==
    IF d = 0 THEN [m \in {0} |-> zero]
    ELSE LET prev == NewPowerSet(nums, i, d - 1)
             half == ListLen(prev)
         IN [m \in 0..(2 * half - 1) |->
                IF m < half THEN prev[m] ELSE adder(prev[m - half], nums[i + d - 1])]

\* Faulty variant: partition i is taken to start at i instead of i * k.
PowerSetsUnstrided(nums, k) ==
    [i \in 0..((ListLen(nums) \div k) - 1) |-> NewPowerSet(nums, i, k)]

\* lines 60-65
PowerSets(nums, k) ==
    [i \in 0..((ListLen(nums) \div k) - 1) |-> NewPowerSet(nums, i * k, k)]

\* lines 73-76
RECURSIVE IndexInPowerSet(_, _, _, _)
IndexInPowerSet(subset, i, k, j) ==
    IF j = 0 THEN 0
    ELSE IndexInPowerSet(subset, i, k, j - 1)
         + (IF (i * k + (j - 1)) \in subset THEN Pow2(j - 1) ELSE 0)

\* lines 71-77
RECURSIVE SubsetSum(_, _, _, _)
SubsetSum(psets, subset, k, n) ==
    IF n = 0 THEN zero
    ELSE adder(SubsetSum(psets, subset, k, n - 1),
               psets[n - 1][IndexInPowerSet(subset, n - 1, k, k)])

Multisubset2 ==
    /\ pc = "start" /\ fn = "multisubset2"
    /\ LET k == PartitionSize(arg_subsets)
           padded == Padded(arg_numbers, k)
           psets == PowerSets(padded, k)
       IN /\ numbers' = padded
          /\ power_sets' = psets
          /\ result' = [s \in DOMAIN arg_subsets |->
                           SubsetSum(psets, arg_subsets[s], k, ListLen(psets))]
    /\ pc' = "returned"
    /\ UNCHANGED <<fn, arg_numbers, arg_subsets, factors, subsets, output, roundcount,
                   pair_count, slots, used, err, adds>>

(***************************************************************************)
(* lincomb                                                                 *)
(***************************************************************************)

\* len(bin(f)) - 2: bin(0) is '0b0', bin(-3) is '-0b11'
RECURSIVE BinDigits(_)
BinDigits(f) == IF f < 2 THEN 1 ELSE 1 + BinDigits(f \div 2)

BinLen(f) == IF f < 0 THEN 1 + BinDigits(-f) ELSE BinDigits(f)

\* line 85
MaxBitLen(fs) ==
    CHOOSE b \in {BinLen(fs[i]) : i \in DOMAIN fs} :
        \A i \in DOMAIN fs : BinLen(fs[i]) <= b

\* f & (1 << j) on Python's unbounded two's-complement integers
BitSet(f, j) == (f \div Pow2(j)) % 2 = 1

\* Faulty variant: subset j is built from bit j + 1.
BitSubsetsShifted(nums, fs, maxbitlen) ==
    [j \in 0..maxbitlen |-> {i \in DOMAIN nums : BitSet(fs[i], j + 1)}]

\* line 88
BitSubsets(nums, fs, maxbitlen) ==
    [j \in 0..maxbitlen |-> {i \in DOMAIN nums : BitSet(fs[i], j)}]

\* lines 97-99: the loop from position i down to 0; <<o, adder calls>>
RECURSIVE Recombine(_, _, _, _)
Recombine(sums, i, o, calls) ==
    IF i < 0 THEN <<o, calls>>
    ELSE Recombine(sums, i - 1, adder(adder(o, o), sums[i]), calls + 2)

\* lines 85-89
LincombStart ==
    /\ pc = "start" /\ fn = "lincomb"
    /\ IF ListLen(factors) = 0
       THEN /\ pc' = "error" /\ err' = "ValueError"
            /\ UNCHANGED <<arg_subsets, numbers, subsets, output, roundcount,
                           pair_count, slots, used>>
       ELSE IF ListLen(arg_numbers) > ListLen(factors)
       THEN /\ pc' = "error" /\ err' = "IndexError"
            /\ UNCHANGED <<arg_subsets, numbers, subsets, output, roundcount,
                           pair_count, slots, used>>
       ELSE /\ arg_subsets' = BitSubsets(arg_numbers, factors, MaxBitLen(factors))
            /\ EnterMultisubset(arg_numbers, arg_subsets')
            /\ pc' = "round"
            /\ err' = err
    /\ UNCHANGED <<fn, arg_numbers, factors, power_sets, result, adds>>

\* lines 97-100
LincombRecombine ==
    /\ pc = "recombine"
    /\ LET r == Recombine(output, ListLen(arg_subsets) - 1, zero, 0)
       IN result' = r[1] /\ adds' = r[2]
    /\ pc' = "returned"
    /\ UNCHANGED <<fn, arg_numbers, arg_subsets, factors, numbers, subsets, output,
                   roundcount, pair_count, slots, used, power_sets, err>>

(***************************************************************************)
(* The calls explored.  No function branches on the value of a number:     *)
(* numbers are only handed to the adder, so every output is a fixed sum of *)
(* input numbers chosen by the indices alone.  The numbers list of length  *)
(* n is therefore taken to be 1, Radix, Radix^2, ..., whose sums tell      *)
(* apart which inputs were added and how often.                            *)
(*                                                                         *)
(* A solver is called on every list of up to MaxLen numbers with up to     *)
(* MaxSubsets subsets of valid indices, and with up to MaxBadSubsets       *)
(* subsets whose indices range over -1..len(numbers), one below and one    *)
(* above the valid range.  lincomb is called on every pair of a numbers    *)
(* list and a factors list of up to MaxFactors entries each (equal lengths *)
(* or not), with factors in -1..MaxFactor.                                 *)
(***************************************************************************)
RECURSIVE RadixPower(_)
RadixPower(i) == IF i = 0 THEN 1 ELSE Radix * RadixPower(i - 1)

NumberLists(maxlen) == {[i \in 0..(n - 1) |-> RadixPower(i)] : n \in 0..maxlen}

ValidIndices(nums) == 0..(ListLen(nums) - 1)

IndexChoices(nums) == (-1)..ListLen(nums)

FactorChoices == (-1)..MaxFactor

ValidCall(nums, subs) ==
    \A k \in DOMAIN subs : subs[k] \subseteq ValidIndices(nums)

SolverCalls ==
    {c \in NumberLists(MaxLen) \X ListsOver(SUBSET (0..(MaxLen - 1)), MaxSubsets) :
        ValidCall(c[1], c[2])}

BadCalls ==
    {c \in NumberLists(MaxLen) \X ListsOver(SUBSET ((-1)..MaxLen), MaxBadSubsets) :
        \A k \in DOMAIN c[2] : c[2][k] \subseteq IndexChoices(c[1])}

LincombCalls == NumberLists(MaxFactors) \X ListsOver(FactorChoices, MaxFactors)

\* the state in which a call is entered
Entry ==
    /\ pc = "start"
    /\ numbers = EmptyList
    /\ subsets = EmptyList
    /\ output = EmptyList
    /\ roundcount = 0
    /\ pair_count = EmptyList
    /\ slots = 0
    /\ used = {}
    /\ power_sets = EmptyList
    /\ result = NoResult
    /\ err = ""
    /\ adds = 0

SolverInit(name, calls) ==
    /\ fn = name
    /\ \E c \in calls : arg_numbers = c[1] /\ arg_subsets = c[2]
    /\ factors = EmptyList
    /\ Entry

LincombInit ==
    /\ fn = "lincomb"
    /\ \E c \in LincombCalls : arg_numbers = c[1] /\ factors = c[2]
    /\ arg_subsets = EmptyList
    /\ Entry

Init ==
    \/ SolverInit("multisubset", SolverCalls \cup BadCalls)
    \/ SolverInit("multisubset2", SolverCalls \cup BadCalls)
    \/ LincombInit

Next ==
    \/ MultisubsetStart
    \/ RoundValueError
    \/ RoundRank
    \/ RoundExit
    \/ SkipPair
    \/ MergePair
    \/ EndRound
    \/ Multisubset2
    \/ LincombStart
    \/ LincombRecombine

Spec == Init /\ [][Next]_vars

(***************************************************************************)
(* multisubset alone, called with subsets of valid indices on every list   *)
(* of up to MaxLen numbers (the empty list included).  The call is one     *)
(* sequential computation: it keeps running until it returns or raises,    *)
(* which is the weak fairness of its steps.                                *)
(***************************************************************************)
MultisubsetInit == SolverInit("multisubset", SolverCalls)

MultisubsetNext ==
    \/ MultisubsetStart
    \/ RoundValueError
    \/ RoundRank
    \/ RoundExit
    \/ SkipPair
    \/ MergePair
    \/ EndRound

MultisubsetSpec ==
    MultisubsetInit /\ [][MultisubsetNext]_vars /\ WF_vars(MultisubsetNext)

(***************************************************************************)
(* multisubset2 alone, called with subsets of valid indices.               *)
(***************************************************************************)
Multisubset2Init == SolverInit("multisubset2", SolverCalls)

Multisubset2Next == Multisubset2

Multisubset2Spec == Multisubset2Init /\ [][Multisubset2Next]_vars

(***************************************************************************)
(* lincomb alone, with the multisubset call it makes.                      *)
(***************************************************************************)
LincombNext ==
    \/ LincombStart
    \/ RoundValueError
    \/ RoundRank
    \/ RoundExit
    \/ SkipPair
    \/ MergePair
    \/ EndRound
    \/ LincombRecombine

LincombSpec == LincombInit /\ [][LincombNext]_vars

(***************************************************************************)
(* Reference definitions used by the properties.                           *)
(***************************************************************************)

\* The plain sum of nums at the indices in S.
RECURSIVE NaiveSum(_, _)
NaiveSum(nums, S) ==
    IF S = {} THEN 0
    ELSE LET i == CHOOSE j \in S : TRUE
         IN nums[i] + NaiveSum(nums, S \ {i})

\* The sum of nums[i] * fs[i] over the first n positions.
RECURSIVE WeightedSum(_, _, _)
WeightedSum(nums, fs, n) ==
    IF n = 0 THEN 0 ELSE WeightedSum(nums, fs, n - 1) + nums[n - 1] * fs[n - 1]

\* The positions j < k whose bit is set in mask m.
MaskMembers(m, k) == {j \in 0..(k - 1) : (m \div Pow2(j)) % 2 = 1}

\* The total number of indices held by outstanding subsets.
RECURSIVE TotalIndices(_, _)
TotalIndices(subs, K) ==
    IF K = {} THEN 0
    ELSE LET k == CHOOSE j \in K : TRUE
         IN Cardinality(subs[k]) + TotalIndices(subs, K \ {k})

Outstanding == TotalIndices(subsets, DOMAIN subsets)

ValidSolverCall == ValidCall(arg_numbers, arg_subsets)

ValidMultisubsetCall ==
    fn = "multisubset" /\ ListLen(arg_numbers) >= 1 /\ ValidSolverCall

ValidLincombCall ==
    /\ fn = "lincomb"
    /\ ListLen(arg_numbers) >= 1
    /\ ListLen(factors) = ListLen(arg_numbers)
    /\ \A i \in DOMAIN factors : factors[i] >= 0

SumsAreFolds(res) ==
    /\ DOMAIN res = DOMAIN arg_subsets
    /\ \A k \in DOMAIN arg_subsets : res[k] = NaiveSum(arg_numbers, arg_subsets[k])

(***************************************************************************)
(* C1: for a non-empty numbers list and subsets of valid indices,          *)
(* multisubset raises nothing, and the list it returns has one entry per   *)
(* subset, entry k being the sum of the original numbers at the indices of *)
(* subsets[k].                                                             *)
(***************************************************************************)
C1_MultisubsetSums ==
    ValidMultisubsetCall =>
        /\ pc # "error"
        /\ pc = "returned" => SumsAreFolds(result)

\* a call with two different overlapping subsets that merged twice before
\* returning its two sums
C1_Witness ==
    /\ ValidMultisubsetCall /\ pc = "returned"
    /\ ListLen(numbers) >= ListLen(arg_numbers) + 2
    /\ ListLen(result) = 2
    /\ arg_subsets[0] # arg_subsets[1]
    /\ \A k \in DOMAIN arg_subsets : Cardinality(arg_subsets[k]) >= 2

(***************************************************************************)
(* C2: for subsets of valid indices multisubset2 returns, for every        *)
(* subset, the sum of the original numbers at its indices; the partition   *)
(* size is k = 1 + int(ln(len(subsets) + 1)), the working list is the      *)
(* original padded with zero to a multiple of k, and the power-set entry   *)
(* at mask m of partition i is the sum of the partition's numbers whose    *)
(* bit is set in m.                                                        *)
(***************************************************************************)
C2_Multisubset2Sums ==
    (fn = "multisubset2" /\ ValidSolverCall /\ pc = "returned") =>
        LET k == 1 + IntLog(ListLen(arg_subsets) + 1)
        IN /\ SumsAreFolds(result)
           /\ ListLen(numbers) % k = 0
           /\ ListLen(numbers) - ListLen(arg_numbers) \in 0..(k - 1)
           /\ \A i \in DOMAIN numbers :
                 numbers[i] = IF i < ListLen(arg_numbers) THEN arg_numbers[i] ELSE zero
           /\ DOMAIN power_sets = 0..((ListLen(numbers) \div k) - 1)
           /\ \A i \in DOMAIN power_sets :
                 /\ DOMAIN power_sets[i] = 0..(Pow2(k) - 1)
                 /\ \A m \in DOMAIN power_sets[i] :
                       power_sets[i][m] =
                           NaiveSum(numbers, {i * k + j : j \in MaskMembers(m, k)})

\* three numbers, two subsets: partitions of two, one padding zero, and a
\* subset that takes numbers from both partitions
C2_Witness ==
    /\ fn = "multisubset2" /\ ValidSolverCall /\ pc = "returned"
    /\ ListLen(arg_numbers) = 3 /\ ListLen(numbers) = 4
    /\ ListLen(power_sets) = 2
    /\ \E k \in DOMAIN arg_subsets : arg_subsets[k] = {0, 1, 2}

(***************************************************************************)
(* C3: for a non-empty numbers list and as many non-negative factors,      *)
(* lincomb raises nothing and returns the sum of numbers[i] * factors[i].  *)
(***************************************************************************)
C3_LincombWeightedSum ==
    ValidLincombCall =>
        /\ pc # "error"
        /\ pc = "returned" =>
              result = WeightedSum(arg_numbers, factors, ListLen(arg_numbers))

\* three numbers with three different positive factors, two of them sharing a bit
C3_Witness ==
    /\ ValidLincombCall /\ pc = "returned"
    /\ ListLen(arg_numbers) = 3
    /\ {factors[i] : i \in DOMAIN factors} = {1, 2, 3}
    /\ result > 0

(***************************************************************************)
(* C4: whenever a subset holds an index outside the caller's numbers list  *)
(* (negative, or >= len(numbers)), multisubset and multisubset2 raise and  *)
(* return no sums.                                                         *)
(***************************************************************************)
C4_InvalidIndexNeverReturns ==
    (fn \in {"multisubset", "multisubset2"} /\ ~ValidSolverCall) => pc # "returned"

(***************************************************************************)
(* C5: whenever len(numbers) differs from len(factors), or some factor is  *)
(* negative, lincomb raises and returns no total.                          *)
(***************************************************************************)
C5_LincombRejectsBadInput ==
    (/\ fn = "lincomb"
     /\ \/ ListLen(arg_numbers) # ListLen(factors)
        \/ \E i \in DOMAIN factors : factors[i] < 0)
    => pc # "returned"

(***************************************************************************)
(* C6: for either solver and a numbers list of any length, the empty one   *)
(* included, the call with subsets of valid indices raises nothing and     *)
(* every empty subset gets zero as its sum.                                *)
(***************************************************************************)
C6_EmptySubsetIsZero ==
    (fn \in {"multisubset", "multisubset2"} /\ ValidSolverCall) =>
        /\ pc # "error"
        /\ pc = "returned" =>
              \A k \in DOMAIN arg_subsets :
                  arg_subsets[k] = {} => (k \in DOMAIN result /\ result[k] = zero)

(***************************************************************************)
(* C7: on a non-empty numbers list and subsets of valid indices,           *)
(* multisubset reaches its return statement: every merge strictly lowers   *)
(* the total number of indices held by outstanding subsets, every round    *)
(* that does not return makes at least one merge, the round counter stays  *)
(* below the iteration cap, and the call eventually returns.               *)
(***************************************************************************)
C7_MultisubsetTerminates ==
    /\ [][(ValidMultisubsetCall /\ pc = "merge" /\ numbers' # numbers)
            => Outstanding' < Outstanding]_vars
    /\ [][(ValidMultisubsetCall /\ pc = "merge" /\ pc' = "round")
            => ListLen(numbers') > roundcount - 1 + ListLen(arg_numbers)]_vars
    /\ [](ValidMultisubsetCall => roundcount < RoundCap)
    /\ (ValidMultisubsetCall ~> pc = "returned")

\* a valid call that returned in its third round, after two merging rounds
C7_Witness ==
    /\ ValidMultisubsetCall /\ pc = "returned"
    /\ roundcount >= 3
    /\ ListLen(numbers) > ListLen(arg_numbers)

(***************************************************************************)
(* C8: when multisubset takes its exit branch, every subset still          *)
(* outstanding holds at most one index, whatever the length of the numbers *)
(* list (lists of one or two numbers included).                            *)
(***************************************************************************)
C8_ExitOnlyWithoutPairs ==
    (ValidMultisubsetCall /\ pc = "returned") =>
        \A k \in DOMAIN subsets : Cardinality(subsets[k]) <= 1

(***************************************************************************)
(* C9: lincomb's recombination loop makes exactly 2 * B adder calls, B     *)
(* being the maximum bit length over the factors (maxbitlen, line 85), as  *)
(* the comment at lines 95-96 says.  The code builds maxbitlen + 1 subsets *)
(* (line 88), the topmost always empty for non-negative factors, and loops *)
(* once per subset, so it makes two calls more.                            *)
(***************************************************************************)
C9_TwoCallsPerBitLength ==
    (ValidLincombCall /\ pc = "returned") => adds = 2 * MaxBitLen(factors)

(***************************************************************************)
(* C10: in multisubset on a valid call, at every point of every round and  *)
(* for every order in which pairs of equal count are ranked, (a) the sum   *)
(* of the working numbers at the current indices of each outstanding       *)
(* subset equals the sum of the original numbers at that subset's original *)
(* indices, and (b) the output recorded for each resolved subset equals    *)
(* the sum of the original numbers at its original indices.                *)
(***************************************************************************)
C10_SumPreservation ==
    (ValidMultisubsetCall /\ pc \in {"round", "merge"}) =>
        /\ \A k \in DOMAIN subsets :
              /\ subsets[k] \subseteq ValidIndices(numbers)
              /\ NaiveSum(numbers, subsets[k]) = NaiveSum(arg_numbers, arg_subsets[k])
        /\ \A k \in (DOMAIN output) \ (DOMAIN subsets) :
              output[k] = NaiveSum(arg_numbers, arg_subsets[k])

\* in the middle of a round: one subset already resolved by a merge, the other
\* rewritten to hold a merged index beside an original one
C10_Witness ==
    /\ ValidMultisubsetCall /\ pc = "merge"
    /\ DOMAIN subsets # DOMAIN output
    /\ \E k \in DOMAIN subsets :
          /\ Cardinality(subsets[k]) >= 2
          /\ \E i \in subsets[k] : i >= ListLen(arg_numbers)
          /\ \E i \in subsets[k] : i < ListLen(arg_numbers)

====
